---- MODULE Spec2Model ----
(***************************************************************************)
(* Contract formation of the renter's contractor (package contractor):     *)
(* verifySettings, negotiateContract, Contractor.newContract and           *)
(* Contractor.formContracts.                                               *)
(*                                                                         *)
(* Every newContract call is run by one of the processes in Procs, which   *)
(* steps through the function's statements.  The contractor's fields, the  *)
(* wallet, and the per-call log of calls to collaborators (connection,     *)
(* wallet, transaction pool, persistence) are the state.  What the host,   *)
(* the network, the wallet and the transaction pool answer is chosen       *)
(* nondeterministically at the step that asks.                             *)
(*                                                                         *)
(* Currency is an arbitrary-precision integer in the source; prices are    *)
(* measured here in the unit of the argument of StoragePriceToConsensus    *)
(* (SC / TB / Month), so that maxPrice is 500000.                          *)
(*                                                                         *)
(* filesize and numSectors are uint64 in the source.  The model keeps the  *)
(* wrap-around of that word at WordBits bits, with a sector of SectorSize  *)
(* bytes that is, as in the source, a power of two far below the word.     *)
(***************************************************************************)
EXTENDS Integers, Sequences, FiniteSets, TLC

\* ------------------------------------------------------------- bounds
NumProcs == 2
MaxCalls == 4
MaxPasses == 2
MaxSharedCalls == 2
WordBits == 6

Procs == 1..NumProcs

\* ---------------------------------------------------------- constants
maxPrice == 500000
PublicKeySize == 32
SiafundCount == 10000
SignatureEd25519 == "ed25519"
AcceptResponse == "accept"
RPCFormContract == "FormContract"
ZeroUnlockHash == 0
ErrDuplicateTransactionSet == <<"transaction set contains only duplicate transactions">>
errTooExpensive == <<"host price was too high">>
nil == <<>>

\* ------------------------------------------------------------- inputs
Prices == {maxPrice, maxPrice + 1}
Collaterals == {1}
FileSizes == {2}
Heights == {1}
EndHeights == {1, 2}
PublicKeys ==
    { [Algorithm |-> SignatureEd25519, KeyLen |-> PublicKeySize],
      [Algorithm |-> "entropy", KeyLen |-> PublicKeySize] }

Settings(price, coll, accepting) ==
    [ AcceptingContracts |-> accepting,
      NetAddress |-> "host:9982",
      ContractPrice |-> price,
      Collateral |-> coll,
      UnlockHash |-> 100,
      WindowSize |-> 2 ]

\* The entries the host database may hand to newContract.
HostEntries ==
    { [HostExternalSettings |-> Settings(pr, co, TRUE), PublicKey |-> pk] :
        pr \in Prices, co \in Collaterals, pk \in PublicKeys }

\* The settings a host may send when asked: what is known, a refusal to
\* accept contracts, or a raised price.
RecvSettings(host) ==
    { host.HostExternalSettings,
      [host.HostExternalSettings EXCEPT !.AcceptingContracts = FALSE],
      [host.HostExternalSettings EXCEPT !.ContractPrice = maxPrice + 1] }

\* What crypto.ReadSignedObject may fail with.
ReadSignedObjectErrors == {"invalid signature", "object exceeds size limit"}

\* The response tokens a host may send.
Responses == {AcceptResponse, "rejected: too small"}

\* modules.SectorSize, in the model's word.
SectorSize == 4

\* The largest value of the uint64 word.
MaxUint64 == 2^WordBits - 1

\* The allowances formContracts may be called with.
FundsValues == {0, 3, 9, 256, 512}
HostCounts == {0, 1, 2, 4}
Periods == {2}
Allowances ==
    { [Funds |-> f, Hosts |-> h, Period |-> pd] :
        f \in FundsValues, h \in HostCounts, pd \in Periods }

\* A host of the host database: its address and its price.
PoolHost(addr, price) ==
    [ HostExternalSettings |-> [Settings(price, 1, TRUE) EXCEPT !.NetAddress = addr],
      PublicKey |-> [Algorithm |-> SignatureEd25519, KeyLen |-> PublicKeySize] ]

\* What the host database may hold: nothing, one host that asks no price, two
\* hosts of different prices, five hosts of one price.
HostPools ==
    { << >>,
      << PoolHost("h1", 0) >>,
      << PoolHost("h1", 1), PoolHost("h2", 2) >>,
      << PoolHost("h1", 1), PoolHost("h2", 1), PoolHost("h3", 1),
         PoolHost("h4", 1), PoolHost("h5", 1) >> }

\* ---------------------------------------------------------- zero values
ZeroFileContract ==
    [ FileSize |-> 0, WindowStart |-> 0, WindowEnd |-> 0, Payout |-> 0,
      UnlockHash |-> <<>>, RevisionNumber |-> 0,
      ValidProofOutputs |-> <<>>, MissedProofOutputs |-> <<>> ]
ZeroRevision ==
    [ ParentID |-> <<>>, UnlockConditions |-> <<>>, NewRevisionNumber |-> 0,
      NewFileSize |-> 0, NewWindowStart |-> 0, NewWindowEnd |-> 0,
      NewValidProofOutputs |-> <<>>, NewMissedProofOutputs |-> <<>>,
      NewUnlockHash |-> <<>> ]
ZeroContract ==
    [ IP |-> "", ID |-> <<>>, FileContract |-> ZeroFileContract,
      LastRevision |-> ZeroRevision, SecretKey |-> 0 ]
ZeroHost ==
    [ HostExternalSettings |-> Settings(0, 0, FALSE),
      PublicKey |-> [Algorithm |-> "", KeyLen |-> 0] ]
ZeroArgs == [ host |-> ZeroHost, filesize |-> 0, endHeight |-> 0 ]
ZeroLocals ==
    [ host |-> ZeroHost, ourAddress |-> ZeroUnlockHash, height |-> 0,
      fc |-> ZeroFileContract, draft |-> 0, ourSK |-> 0, uc |-> <<>>,
      signedTxnSet |-> <<>>, fcid |-> <<>>, response |-> "",
      hostTxnSet |-> <<>>, contract |-> ZeroContract, deadline |-> "none" ]

ZeroAllowance == [ Funds |-> 0, Hosts |-> 0, Period |-> 0 ]
ZeroFormLocals ==
    [ hosts |-> <<>>, filesize |-> 0, endHeight |-> 0, numContracts |-> 0,
      i |-> 0, warned |-> 0 ]
NoFormReturn == <<"pending">>

VARIABLES
    contracts,      \* c.contracts: map from contract ID to Contract
    spentPeriod,    \* c.spentPeriod
    spentTotal,     \* c.spentTotal
    cachedAddress,  \* c.cachedAddress
    blockHeight,    \* c.blockHeight
    mu,             \* c.mu: 0 when free, else the process holding it
    saveCount,      \* number of c.save() calls
    walletAddrs,    \* number of addresses wallet.NextAddress has handed out
    drafts,         \* the wallet's transaction builders, by draft number
    nCalls,         \* number of newContract calls made so far
    overlapped,     \* history: some call began while another was running
    pc,             \* where each process is in newContract
    arg,            \* the arguments of each process's call
    loc,            \* the local variables of each process's call
    log,            \* the collaborator calls each process's call has made
    ret,            \* what each process's last call returned
    renewHeight,    \* c.renewHeight
    hdb,            \* the hosts the host database holds, in the order it samples them
    nPasses,        \* number of formContracts calls made so far
    fpc,            \* where each process is in formContracts
    fa,             \* the allowance of each process's formContracts call
    floc,           \* the local variables of each process's formContracts call
    fret,           \* what each process's last formContracts call returned
    tried           \* history: the attempts of each process's pass, in order

vars == << contracts, spentPeriod, spentTotal, cachedAddress, blockHeight, mu,
           saveCount, walletAddrs, drafts, nCalls, overlapped, pc, arg, loc, log, ret,
           renewHeight, hdb, nPasses, fpc, fa, floc, fret, tried >>

\* The state of the formation passes.
formVars == << renewHeight, hdb, nPasses, fpc, fa, floc, fret, tried >>

\* ---------------------------------------------------------- pure helpers
RoundDown(x, n) == x - (x % n)

\* types.Tax: 3.9% of the payout, rounded down to a multiple of the siafund count.
Tax(height, payout) == RoundDown((payout * 39) \div 1000, SiafundCount)

PostTax(height, payout) == payout - Tax(height, payout)

\* Mutant: the ceiling is compared one too high.
TooExpensiveOffByOne(host) == host.HostExternalSettings.ContractPrice > maxPrice + 1

\* host.ContractPrice.Cmp(maxPrice) > 0
TooExpensive(host) == host.HostExternalSettings.ContractPrice > maxPrice

\* Mutant: a contract that ends at the current height is let through.
EndsInPastStrict(endHeight, height) == endHeight < height

\* endHeight <= height
EndsInPast(endHeight, height) == endHeight <= height

\* Mutant: every call asks the wallet for a new address.
NeedsAddressAlways(cached) == TRUE

\* c.cachedAddress == (types.UnlockHash{})
NeedsAddress(cached) == cached = ZeroUnlockHash

\* Mutant: the rent cost leaves the duration out.
RenterCostNoDuration(host, filesize, duration) ==
    host.HostExternalSettings.ContractPrice * filesize

RenterCost(host, filesize, duration) ==
    host.HostExternalSettings.ContractPrice * filesize * duration

\* Mutant: without a proof the renter gets the rent cost back untaxed, and the
\* host's share goes to the host.
NewFileContractUntaxedMiss(host, filesize, endHeight, height, ourAddress) ==
    LET renterCost == host.HostExternalSettings.ContractPrice * filesize * (endHeight - height)
        payout == renterCost + host.HostExternalSettings.Collateral
    IN  [ FileSize |-> 0,
          WindowStart |-> endHeight,
          WindowEnd |-> endHeight + host.HostExternalSettings.WindowSize,
          Payout |-> payout,
          UnlockHash |-> <<>>,
          RevisionNumber |-> 0,
          ValidProofOutputs |->
              << [Value |-> PostTax(height, renterCost), UnlockHash |-> ourAddress],
                 [Value |-> 0, UnlockHash |-> host.HostExternalSettings.UnlockHash] >>,
          MissedProofOutputs |->
              << [Value |-> renterCost, UnlockHash |-> ourAddress],
                 [Value |-> 0, UnlockHash |-> host.HostExternalSettings.UnlockHash] >> ]

\* The types.FileContract literal of newContract.
NewFileContract(host, filesize, endHeight, height, ourAddress) ==
    LET renterCost == RenterCost(host, filesize, endHeight - height)
        payout == renterCost + host.HostExternalSettings.Collateral
    IN  [ FileSize |-> 0,
          WindowStart |-> endHeight,
          WindowEnd |-> endHeight + host.HostExternalSettings.WindowSize,
          Payout |-> payout,
          UnlockHash |-> <<>>,
          RevisionNumber |-> 0,
          ValidProofOutputs |->
              << [Value |-> PostTax(height, renterCost), UnlockHash |-> ourAddress],
                 [Value |-> 0, UnlockHash |-> host.HostExternalSettings.UnlockHash] >>,
          MissedProofOutputs |->
              << [Value |-> PostTax(height, renterCost), UnlockHash |-> ourAddress],
                 [Value |-> 0, UnlockHash |-> ZeroUnlockHash] >> ]

\* The first check of verifySettings: the host key is an ed25519 key.
SupportedKey(host) ==
    /\ host.PublicKey.Algorithm = SignatureEd25519
    /\ host.PublicKey.KeyLen = PublicKeySize

\* uc of negotiateContract, and uc.UnlockHash().
UnlockConditions(ourSK, host) ==
    [ PublicKeys |-> << [Algorithm |-> SignatureEd25519, Key |-> ourSK], host.PublicKey >>,
      SignaturesRequired |-> 2 ]

UnlockHashOf(uc) == << uc.PublicKeys, uc.SignaturesRequired >>

\* What txnBuilder.Sign returns for a draft funded for fc: the transaction set
\* whose last transaction holds the file contract.
SignedTxnSet(draft, fc) ==
    << [ draft |-> draft, FileContracts |-> << fc >>, Signatures |-> {"renter"} ] >>

\* Transaction.FileContractID(i): a hash of the transaction without its
\* signatures, and of i.
FileContractID(txn, i) == << txn.draft, txn.FileContracts, i >>

\* Mutant: the ID is that of a second contract output.
ContractIDOfOutput1(signedTxnSet) == FileContractID(signedTxnSet[Len(signedTxnSet)], 1)

\* fcid := signedTxnSet[len(signedTxnSet)-1].FileContractID(0)
ContractIDOf(signedTxnSet) == FileContractID(signedTxnSet[Len(signedTxnSet)], 0)

\* The transaction sets a host may answer with: ours countersigned, nothing,
\* or a transaction of its own.
HostTxnSets(signedTxnSet) ==
    { [ i \in 1..Len(signedTxnSet) |->
          [signedTxnSet[i] EXCEPT !.Signatures = @ \cup {"host"}] ],
      << >>,
      << [ draft |-> 0, FileContracts |-> << >>, Signatures |-> {"host"} ] >> }

\* What tpool.AcceptTransactionSet may return.
TpoolErrors == { nil, ErrDuplicateTransactionSet, <<"transaction set is invalid">> }

\* Mutant: a duplicate transaction set is an error like any other.
SubmitErrorStrict(err) == err

\* negotiateContract's treatment of the pool's answer.
SubmitError(err) == IF err = ErrDuplicateTransactionSet THEN nil ELSE err

\* The Contract literal of negotiateContract.
NewContractRecord(host, fcid, fc, uc, ourSK) ==
    [ IP |-> host.HostExternalSettings.NetAddress,
      ID |-> fcid,
      FileContract |-> fc,
      LastRevision |->
          [ ParentID |-> fcid,
            UnlockConditions |-> uc,
            NewRevisionNumber |-> fc.RevisionNumber,
            NewFileSize |-> fc.FileSize,
            NewWindowStart |-> fc.WindowStart,
            NewWindowEnd |-> fc.WindowEnd,
            NewValidProofOutputs |-> << fc.ValidProofOutputs[1], fc.ValidProofOutputs[2] >>,
            NewMissedProofOutputs |-> << fc.MissedProofOutputs[1], fc.MissedProofOutputs[2] >>,
            NewUnlockHash |-> fc.UnlockHash ],
      SecretKey |-> ourSK ]

\* c.contracts[contract.ID] = contract
MapPut(m, key, value) ==
    [ k \in DOMAIN m \cup {key} |-> IF k = key THEN value ELSE m[k] ]

EmptyMap == [ k \in {} |-> ZeroContract ]

NoReturn == [ contract |-> ZeroContract, err |-> <<"pending">> ]


\* Mutant: the settings are not checked for AcceptingContracts.
AcceptingIgnored(recvSettings) == TRUE

\* recvSettings.AcceptingContracts
Accepting(recvSettings) == recvSettings.AcceptingContracts

\* Mutant: any non-empty token counts as acceptance.
AcceptedAnything(response) == response # ""

\* response == modules.AcceptResponse
Accepted(response) == response = AcceptResponse

\* Mutant: the spend counters grow by the renter's output, not by the payout.
AddPayoutNetOfTax(spent, fc) == spent + fc.ValidProofOutputs[1].Value

\* c.spentPeriod.Add(fc.Payout), c.spentTotal.Add(fc.Payout)
AddPayout(spent, fc) == spent + fc.Payout

\* newContract's own fc: negotiateContract was handed a copy, and the unlock
\* hash it filled in is in the copy alone.
CallersFileContract(fc) == [fc EXCEPT !.UnlockHash = << >>]

\* The name in the log of the settings read.
SettingsRead(recvSettings) ==
    IF recvSettings.AcceptingContracts THEN "accepting" ELSE "not accepting"

\* The name of the pool's answer in the log.
TpoolAnswer(err) == IF err = nil THEN "accepted" ELSE err[1]

\* ------------------------------------------- formContracts, pure helpers
Min(a, b) == IF a <= b THEN a ELSE b

\* c.hdb.RandomHosts(n, nil): at most n of the hosts the database holds.
RandomHosts(pool, n) == SubSeq(pool, 1, Min(n, Len(pool)))

\* Mutant: only an empty sample is too small.
NotEnoughHostsNone(hosts, a) == Len(hosts) = 0

\* uint64(len(hosts)) < a.Hosts
NotEnoughHosts(hosts, a) == Len(hosts) < a.Hosts

\* The sum of the prices of hosts[1..n].
RECURSIVE SumPrices(_, _)
SumPrices(hosts, n) ==
    IF n = 0 THEN 0
    ELSE SumPrices(hosts, n - 1) + hosts[n].HostExternalSettings.ContractPrice

\* avgPrice := sum.Div(len(hosts))
AvgPrice(hosts) == SumPrices(hosts, Len(hosts)) \div Len(hosts)

\* costPerSector := avgPrice * a.Hosts * SectorSize * a.Period
CostPerSector(avgPrice, a) == avgPrice * a.Hosts * SectorSize * a.Period

\* a.Funds.Cmp(costPerSector) < 0
Insufficient(a, costPerSector) == a.Funds < costPerSector

\* a.Funds.Div(costPerSector), for a cost that is not zero.
NumSectors(a, costPerSector) == a.Funds \div costPerSector

\* Currency.Uint64() succeeds.
FitsUint64(n) == n <= MaxUint64

\* filesize := numSectors * modules.SectorSize, in uint64 arithmetic.
Filesize(numSectors) == (numSectors * SectorSize) % (MaxUint64 + 1)

\* Mutant: the renewal height is the height that was read.
EndHeightNow(height, period) == height

\* endHeight := c.blockHeight + a.Period
EndHeight(height, period) == height + period

\* numContracts++ after every attempt, whatever it returned.
Counted(err) == 1

\* Mutant: the iteration ends at the first attempt that fails.
LoopEndsOnFailure(err, numContracts, a, i, hosts) ==
    err # nil \/ numContracts >= a.Hosts \/ i = Len(hosts)

\* Mutant: the break comes one attempt early.
LoopEndsEarly(err, numContracts, a, i, hosts) ==
    numContracts + 1 >= a.Hosts \/ i = Len(hosts)

\* The for loop is left: by the break, or because hosts[i] was the last host.
LoopEnds(err, numContracts, a, i, hosts) ==
    numContracts >= a.Hosts \/ i = Len(hosts)

\* Mutant: the lock is taken without waiting for its holder.
LockFreeAlways(m) == TRUE

\* c.mu.Lock() and c.mu.RLock() go through when no writer holds c.mu.
LockFree(m) == m = 0

\* Mutant: the lock is kept after the address and the height are read.
ReleasedLate(p) == p

\* c.mu.Unlock(): the holder of c.mu after the call.
Released(p) == 0

\* ------------------------------------------------------------------ Init
ContractorInit ==
    /\ contracts = EmptyMap
    /\ spentPeriod = 0
    /\ spentTotal = 0
    /\ cachedAddress = ZeroUnlockHash
    /\ blockHeight \in Heights
    /\ mu = 0
    /\ saveCount = 0
    /\ walletAddrs = 0
    /\ drafts = << >>
    /\ nCalls = 0
    /\ overlapped = FALSE
    /\ pc = [ p \in Procs |-> "idle" ]
    /\ arg = [ p \in Procs |-> ZeroArgs ]
    /\ loc = [ p \in Procs |-> ZeroLocals ]
    /\ log = [ p \in Procs |-> << >> ]
    /\ ret = [ p \in Procs |-> NoReturn ]
    /\ renewHeight = 0
    /\ nPasses = 0
    /\ fpc = [ p \in Procs |-> "idle" ]
    /\ fa = [ p \in Procs |-> ZeroAllowance ]
    /\ floc = [ p \in Procs |-> ZeroFormLocals ]
    /\ fret = [ p \in Procs |-> NoFormReturn ]
    /\ tried = [ p \in Procs |-> << >> ]

\* The contractor as constructed, with callers of newContract only.
Init == ContractorInit /\ hdb = << >>

\* ------------------------------------------------------- control transfer
Running(p) == pc[p] \notin {"idle", "done"}

\* The call goes on at label l, having made the collaborator calls in events.
Goto(p, l, events) ==
    /\ pc' = [pc EXCEPT ![p] = l]
    /\ log' = [log EXCEPT ![p] = @ \o events]
    /\ ret' = ret

\* newContract returns (contract, err); its locals die.
Return(p, contract, err, events) ==
    /\ pc' = [pc EXCEPT ![p] = "done"]
    /\ log' = [log EXCEPT ![p] = @ \o events]
    /\ ret' = [ret EXCEPT ![p] = [contract |-> contract, err |-> err]]
    /\ loc' = [loc EXCEPT ![p] = ZeroLocals]

\* The contractor's fields, the lock and the wallet stay as they are.
NoSharedChange ==
    UNCHANGED << contracts, spentPeriod, spentTotal, cachedAddress, blockHeight,
                 mu, saveCount, walletAddrs, drafts >>

\* The events of the deferred conn.Close().
Close == << <<"net", "close", "">> >>

\* Mutant: the draft is not dropped.
DropDraftNever(ds, d) == ds

\* txnBuilder.Drop(): the draft's outputs go back to the wallet.
DropDraft(ds, d) == [ds EXCEPT ![d].drops = @ + 1, ![d].funded = 0]

\* Mutant: a failed negotiation is charged to the spend counters.
NegotiationFailedCharged(p, err, events) ==
    /\ drafts' = DropDraft(drafts, loc[p].draft)
    /\ spentPeriod' = AddPayout(spentPeriod, loc[p].fc)
    /\ spentTotal' = AddPayout(spentTotal, loc[p].fc)
    /\ Return(p, ZeroContract, err, events \o << <<"draft", "Drop", "">> >> \o Close)
    /\ UNCHANGED << contracts, cachedAddress, blockHeight, mu, saveCount, walletAddrs >>

\* Mutant: a failed negotiation clears the cached address.
NegotiationFailedClears(p, err, events) ==
    /\ drafts' = DropDraft(drafts, loc[p].draft)
    /\ cachedAddress' = ZeroUnlockHash
    /\ Return(p, ZeroContract, err, events \o << <<"draft", "Drop", "">> >> \o Close)
    /\ UNCHANGED << contracts, spentPeriod, spentTotal, blockHeight, mu, saveCount, walletAddrs >>

\* Lines 221-224: negotiateContract returned err; newContract drops the draft,
\* closes the connection (deferred) and returns the error.
NegotiationFailed(p, err, events) ==
    /\ drafts' = DropDraft(drafts, loc[p].draft)
    /\ Return(p, ZeroContract, err, events \o << <<"draft", "Drop", "">> >> \o Close)
    /\ UNCHANGED << contracts, spentPeriod, spentTotal, cachedAddress, blockHeight,
                    mu, saveCount, walletAddrs >>

\* ------------------------------------------------------------ newContract
\* Lines 150-154: process p calls newContract(host, filesize, endHeight); the
\* price check.
Call(p, host, filesize, endHeight) ==
    /\ ~Running(p)
    /\ nCalls' = nCalls + 1
    /\ overlapped' = (overlapped \/ \E q \in Procs \ {p} : Running(q))
    /\ arg' = [arg EXCEPT ![p] =
                 [host |-> host, filesize |-> filesize, endHeight |-> endHeight]]
    /\ IF TooExpensive(host)
       THEN /\ pc' = [pc EXCEPT ![p] = "done"]
            /\ ret' = [ret EXCEPT ![p] = [contract |-> ZeroContract, err |-> errTooExpensive]]
            /\ loc' = [loc EXCEPT ![p] = ZeroLocals]
       ELSE /\ pc' = [pc EXCEPT ![p] = "lock1"]
            /\ ret' = [ret EXCEPT ![p] = NoReturn]
            /\ loc' = [loc EXCEPT ![p] = [ZeroLocals EXCEPT !.host = host]]
    /\ log' = [log EXCEPT ![p] = << >>]
    /\ NoSharedChange

\* A call of newContract by a caller other than formContracts.
Begin(p) ==
    /\ nCalls < MaxCalls
    /\ fpc[p] = "idle"
    /\ \E host \in HostEntries, filesize \in FileSizes, endHeight \in EndHeights :
         Call(p, host, filesize, endHeight)
    /\ UNCHANGED formVars

\* Line 157: c.mu.Lock()
Lock1(p) ==
    /\ pc[p] = "lock1"
    /\ LockFree(mu)
    /\ mu' = p
    /\ Goto(p, "address", << >>)
    /\ UNCHANGED << contracts, spentPeriod, spentTotal, cachedAddress, blockHeight,
                    saveCount, walletAddrs, drafts, nCalls, overlapped, arg, loc >>
    /\ UNCHANGED formVars

\* Lines 166-198, with the address addr in c.cachedAddress: read the address
\* and the height, unlock, check the duration and build the file contract.
AfterAddress(p, addr, events) ==
    LET height == blockHeight
    IN  /\ mu' = Released(p)
        /\ IF EndsInPast(arg[p].endHeight, height)
           THEN Return(p, ZeroContract, <<"contract cannot end in the past">>, events)
           ELSE /\ loc' = [loc EXCEPT ![p].ourAddress = addr, ![p].height = height,
                                      ![p].fc = NewFileContract(loc[p].host, arg[p].filesize,
                                                                arg[p].endHeight, height, addr)]
                /\ Goto(p, "dial", events)

\* Lines 158-198, holding c.mu.
Address(p) ==
    /\ pc[p] = "address"
    /\ mu = p
    /\ IF NeedsAddress(cachedAddress)
       THEN \/ /\ mu' = 0
               /\ Return(p, ZeroContract, <<"wallet: no address">>,
                         << <<"wallet", "NextAddress", "failed">> >>)
               /\ UNCHANGED << cachedAddress, walletAddrs >>
            \/ /\ walletAddrs' = walletAddrs + 1
               /\ cachedAddress' = walletAddrs + 1
               /\ AfterAddress(p, walletAddrs + 1, << <<"wallet", "NextAddress", "ok">> >>)
       ELSE /\ UNCHANGED << cachedAddress, walletAddrs >>
            /\ AfterAddress(p, cachedAddress, << >>)
    /\ UNCHANGED << contracts, spentPeriod, spentTotal, blockHeight, saveCount, drafts,
                    nCalls, overlapped, arg >>
    /\ UNCHANGED formVars

\* Lines 201-205: c.dialer.DialTimeout
Dial(p) ==
    /\ pc[p] = "dial"
    /\ \/ Return(p, ZeroContract, <<"dial timeout">>, << <<"net", "dial", "failed">> >>)
       \/ /\ Goto(p, "writeRPC", << <<"net", "dial", "ok">> >>)
          /\ loc' = loc
    /\ NoSharedChange
    /\ UNCHANGED << nCalls, overlapped, arg >>
    /\ UNCHANGED formVars

\* Lines 206-208: announce the operation.
WriteRPC(p) ==
    /\ pc[p] = "writeRPC"
    /\ \/ Return(p, ZeroContract, <<"write failed">>,
                 << <<"net", "write", RPCFormContract>> >> \o Close)
       \/ /\ Goto(p, "verifySettings", << <<"net", "write", RPCFormContract>> >>)
          /\ loc' = loc
    /\ NoSharedChange
    /\ UNCHANGED << nCalls, overlapped, arg >>
    /\ UNCHANGED formVars

\* Lines 211-214 and verifySettings (lines 26-47).
VerifySettings(p) ==
    /\ pc[p] = "verifySettings"
    /\ IF ~SupportedKey(loc[p].host)
       THEN Return(p, ZeroContract, <<"host used unsupported signature algorithm">>, Close)
       ELSE \/ \E cause \in ReadSignedObjectErrors :
                 Return(p, ZeroContract, <<"couldn't read host's settings: ", cause>>,
                        << <<"net", "read settings", cause>> >> \o Close)
            \/ \E recvSettings \in RecvSettings(loc[p].host) :
                 IF ~Accepting(recvSettings)
                 THEN Return(p, ZeroContract, <<"host is not accepting contracts">>,
                             << <<"net", "read settings", SettingsRead(recvSettings)>> >> \o Close)
                 ELSE /\ loc' = [loc EXCEPT ![p].host.HostExternalSettings = recvSettings]
                      /\ Goto(p, "startTransaction",
                              << <<"net", "read settings", SettingsRead(recvSettings)>> >>)
    /\ NoSharedChange
    /\ UNCHANGED << nCalls, overlapped, arg >>
    /\ UNCHANGED formVars

\* Line 217: txnBuilder := c.wallet.StartTransaction()
StartTransaction(p) ==
    /\ pc[p] = "startTransaction"
    /\ drafts' = Append(drafts, [funded |-> 0, drops |-> 0])
    /\ loc' = [loc EXCEPT ![p].draft = Len(drafts) + 1]
    /\ Goto(p, "keygen", << <<"wallet", "StartTransaction", "">> >>)
    /\ UNCHANGED << contracts, spentPeriod, spentTotal, cachedAddress, blockHeight,
                    mu, saveCount, walletAddrs, nCalls, overlapped, arg >>
    /\ UNCHANGED formVars

\* ------------------------------------------------------ negotiateContract
\* Lines 53-72: the deadline, the renter's key and the unlock conditions.  The
\* key pair crypto.GenerateKeyPair makes is new; it is named by the number of
\* the call's draft.
KeyGen(p) ==
    /\ pc[p] = "keygen"
    /\ \/ NegotiationFailed(p, <<"failed to generate keypair: ", "no entropy">>,
                            << <<"net", "deadline", "30s">>,
                               <<"net", "write", "internal error">> >>)
       \/ /\ LET ourSK == loc[p].draft
                 uc == UnlockConditions(ourSK, loc[p].host)
             IN  loc' = [loc EXCEPT ![p].ourSK = ourSK, ![p].uc = uc,
                                    ![p].fc.UnlockHash = UnlockHashOf(uc),
                                    ![p].deadline = "30s"]
          /\ Goto(p, "fund", << <<"net", "deadline", "30s">> >>)
          /\ NoSharedChange
    /\ UNCHANGED << nCalls, overlapped, arg >>
    /\ UNCHANGED formVars

\* Lines 75-80: txnBuilder.FundSiacoins(fc.Payout), txnBuilder.AddFileContract(fc)
Fund(p) ==
    /\ pc[p] = "fund"
    /\ \/ NegotiationFailed(p, <<"insufficient balance">>,
                            << <<"draft", "FundSiacoins", "failed">>,
                               <<"net", "write", "internal error">> >>)
       \/ /\ drafts' = [drafts EXCEPT ![loc[p].draft].funded = loc[p].fc.Payout]
          /\ loc' = loc
          /\ Goto(p, "sign", << <<"draft", "FundSiacoins", "ok">>,
                                <<"draft", "AddFileContract", "">> >>)
          /\ UNCHANGED << contracts, spentPeriod, spentTotal, cachedAddress, blockHeight,
                          mu, saveCount, walletAddrs >>
    /\ UNCHANGED << nCalls, overlapped, arg >>
    /\ UNCHANGED formVars

\* Lines 83-89: sign the transaction set and compute the contract ID.
Sign(p) ==
    /\ pc[p] = "sign"
    /\ \/ NegotiationFailed(p, <<"wallet: cannot sign">>, << <<"draft", "Sign", "failed">> >>)
       \/ /\ LET signedTxnSet == SignedTxnSet(loc[p].draft, loc[p].fc)
             IN  loc' = [loc EXCEPT ![p].signedTxnSet = signedTxnSet,
                                    ![p].fcid = ContractIDOf(signedTxnSet)]
          /\ Goto(p, "sendAccept", << <<"draft", "Sign", "ok">> >>)
          /\ NoSharedChange
    /\ UNCHANGED << nCalls, overlapped, arg >>
    /\ UNCHANGED formVars

\* Mutant: a failed write of the accept token is tried again.
SendAcceptRetries(p) ==
    /\ pc[p] = "sendAccept"
    /\ loc' = loc
    /\ \/ Goto(p, "sendAccept", << <<"net", "write", AcceptResponse>> >>)
       \/ Goto(p, "sendTxnSet", << <<"net", "write", AcceptResponse>> >>)
    /\ NoSharedChange
    /\ UNCHANGED << nCalls, overlapped, arg >>
    /\ UNCHANGED formVars

\* Lines 92-94: send the accept token.
SendAccept(p) ==
    /\ pc[p] = "sendAccept"
    /\ \/ NegotiationFailed(p, <<"couldn't send acceptance: ", "write failed">>,
                            << <<"net", "write", AcceptResponse>> >>)
       \/ /\ loc' = loc
          /\ Goto(p, "sendTxnSet", << <<"net", "write", AcceptResponse>> >>)
          /\ NoSharedChange
    /\ UNCHANGED << nCalls, overlapped, arg >>
    /\ UNCHANGED formVars

\* Lines 95-97: send the transaction set signed by the renter.
SendTxnSet(p) ==
    /\ pc[p] = "sendTxnSet"
    /\ \/ NegotiationFailed(p, <<"couldn't send the contract signed by us: ", "write failed">>,
                            << <<"net", "write", "signedTxnSet">> >>)
       \/ /\ loc' = loc
          /\ Goto(p, "readResponse", << <<"net", "write", "signedTxnSet">> >>)
          /\ NoSharedChange
    /\ UNCHANGED << nCalls, overlapped, arg >>
    /\ UNCHANGED formVars

\* Lines 100-106: read the host's response token.
ReadResponse(p) ==
    /\ pc[p] = "readResponse"
    /\ \/ NegotiationFailed(p, <<"couldn't read the host's response to our proposed contract: ",
                                 "timeout">>,
                            << <<"net", "read response", "failed">> >>)
       \/ \E response \in Responses :
            IF ~Accepted(response)
            THEN NegotiationFailed(p, <<"host rejected proposed contract: ", response>>,
                                   << <<"net", "read response", response>> >>)
            ELSE /\ loc' = [loc EXCEPT ![p].response = response]
                 /\ Goto(p, "readHostTxnSet", << <<"net", "read response", response>> >>)
                 /\ NoSharedChange
    /\ UNCHANGED << nCalls, overlapped, arg >>
    /\ UNCHANGED formVars

\* Lines 107-110: read the transaction set signed by the host.
ReadHostTxnSet(p) ==
    /\ pc[p] = "readHostTxnSet"
    /\ \/ NegotiationFailed(p, <<"couldn't read the host's updated contract: ", "timeout">>,
                            << <<"net", "read hostTxnSet", "failed">> >>)
       \/ \E hostTxnSet \in HostTxnSets(loc[p].signedTxnSet) :
            /\ loc' = [loc EXCEPT ![p].hostTxnSet = hostTxnSet]
            /\ Goto(p, "submit", << <<"net", "read hostTxnSet", "ok">> >>)
            /\ NoSharedChange
    /\ UNCHANGED << nCalls, overlapped, arg >>
    /\ UNCHANGED formVars

\* Lines 115-146: submit the host's transaction set and assemble the contract.
\* On return the locals of negotiateContract die.
Submit(p) ==
    /\ pc[p] = "submit"
    /\ \E err \in TpoolErrors :
         IF SubmitError(err) # nil
         THEN NegotiationFailed(p, SubmitError(err),
                                << <<"tpool", "AcceptTransactionSet", TpoolAnswer(err)>> >>)
         ELSE /\ LET l == loc[p]
                 IN  loc' = [loc EXCEPT ![p] =
                               [ZeroLocals EXCEPT
                                  !.host = l.host, !.ourAddress = l.ourAddress,
                                  !.height = l.height, !.fc = CallersFileContract(l.fc),
                                  !.draft = l.draft, !.deadline = l.deadline,
                                  !.contract = NewContractRecord(l.host, l.fcid, l.fc,
                                                                 l.uc, l.ourSK)]]
              /\ Goto(p, "lock2", << <<"tpool", "AcceptTransactionSet", TpoolAnswer(err)>> >>)
              /\ NoSharedChange
    /\ UNCHANGED << nCalls, overlapped, arg >>
    /\ UNCHANGED formVars

\* ------------------------------------------------- newContract, the commit
\* Line 226: c.mu.Lock()
Lock2(p) ==
    /\ pc[p] = "lock2"
    /\ LockFree(mu)
    /\ mu' = p
    /\ Goto(p, "commit", << >>)
    /\ UNCHANGED << contracts, spentPeriod, spentTotal, cachedAddress, blockHeight,
                    saveCount, walletAddrs, drafts, nCalls, overlapped, arg, loc >>
    /\ UNCHANGED formVars

\* Lines 227-234, holding c.mu: record the contract, save, unlock, return.
Commit(p) ==
    /\ pc[p] = "commit"
    /\ mu = p
    /\ contracts' = MapPut(contracts, loc[p].contract.ID, loc[p].contract)
    /\ spentPeriod' = AddPayout(spentPeriod, loc[p].fc)
    /\ spentTotal' = AddPayout(spentTotal, loc[p].fc)
    /\ cachedAddress' = ZeroUnlockHash
    /\ saveCount' = saveCount + 1
    /\ mu' = 0
    /\ Return(p, loc[p].contract, nil, << <<"save", "save", "">> >> \o Close)
    /\ UNCHANGED << blockHeight, walletAddrs, drafts, nCalls, overlapped, arg >>
    /\ UNCHANGED formVars

\* ------------------------------------------------------------------ Spec
NewContractStep(p) ==
    \/ Lock1(p)
    \/ Address(p)
    \/ Dial(p)
    \/ WriteRPC(p)
    \/ VerifySettings(p)
    \/ StartTransaction(p)
    \/ KeyGen(p)
    \/ Fund(p)
    \/ Sign(p)
    \/ SendAccept(p)
    \/ SendTxnSet(p)
    \/ ReadResponse(p)
    \/ ReadHostTxnSet(p)
    \/ Submit(p)
    \/ Lock2(p)
    \/ Commit(p)

Step(p) ==
    \/ Begin(p)
    \/ NewContractStep(p)

Next == \E p \in Procs : Step(p)

Spec == Init /\ [][Next]_vars

\* ------------------------------------------------------------- progress
\* p's call is at a read from or a write to the host connection.
AtConnectionIO(p) ==
    \/ pc[p] \in {"writeRPC", "sendAccept", "sendTxnSet", "readResponse", "readHostTxnSet"}
    \/ pc[p] = "verifySettings" /\ SupportedKey(loc[p].host)

\* The step p's call is at comes to an end whatever the host does: it is a
\* step of the renter alone, or the dial with its timeout of 15 seconds, or a
\* read or write of a connection whose deadline has been set.
Timed(p) == AtConnectionIO(p) => loc[p].deadline # "none"

\* The calls of newContract with their scheduling: a step that is bounded in
\* time is taken in the end; a read or write without deadline waits for the
\* host as long as the host likes.
LiveSpec == Init /\ [][Next]_vars /\ \A p \in Procs : WF_vars(Timed(p) /\ NewContractStep(p))

\* ---------------------------------------------------------- formContracts
FormRunning(p) == fpc[p] \notin {"idle", "done", "panic"}

\* The newContract calls the passes under way may still make.
RECURSIVE CallsToCome(_)
CallsToCome(n) ==
    IF n = 0 THEN 0
    ELSE CallsToCome(n - 1)
         + (IF FormRunning(n) THEN fa[n].Hosts - floc[n].numContracts ELSE 0)

\* formContracts returns err before it has called newContract; its locals die.
FormReturn(p, err) ==
    /\ fpc' = [fpc EXCEPT ![p] = "done"]
    /\ fret' = [fret EXCEPT ![p] = err]
    /\ floc' = [floc EXCEPT ![p] = ZeroFormLocals]

\* Lines 238-268: a call of formContracts(a): the sample of hosts, the
\* affordability check and the filesize.  Currency.Div panics when the
\* divisor is zero: at line 249 for an empty sample, at line 263 for a cost
\* of zero.  A pass after the first is begun only while the passes
\* together call newContract at most MaxSharedCalls times.
FormBegin(p) ==
    /\ ~FormRunning(p)
    /\ fpc[p] # "panic"
    /\ ~Running(p)
    /\ nPasses < MaxPasses
    /\ nPasses' = nPasses + 1
    /\ tried' = [tried EXCEPT ![p] = << >>]
    /\ \E a \in Allowances :
         /\ nPasses = 0 \/ nCalls + CallsToCome(NumProcs) + a.Hosts <= MaxSharedCalls
         /\ fa' = [fa EXCEPT ![p] = a]
         /\ LET hosts == RandomHosts(hdb, 2 * a.Hosts)
            IN  IF NotEnoughHosts(hosts, a)
                THEN FormReturn(p, <<"not enough hosts">>)
                ELSE IF Len(hosts) = 0
                THEN /\ fpc' = [fpc EXCEPT ![p] = "panic"]
                     /\ fret' = [fret EXCEPT ![p] = <<"panic: division by zero">>]
                     /\ floc' = [floc EXCEPT ![p] = ZeroFormLocals]
                ELSE LET costPerSector == CostPerSector(AvgPrice(hosts), a)
                     IN  IF Insufficient(a, costPerSector)
                         THEN FormReturn(p, <<"insufficient funds">>)
                         ELSE IF costPerSector = 0
                         THEN /\ fpc' = [fpc EXCEPT ![p] = "panic"]
                              /\ fret' = [fret EXCEPT ![p] = <<"panic: division by zero">>]
                              /\ floc' = [floc EXCEPT ![p] = ZeroFormLocals]
                         ELSE LET numSectors == NumSectors(a, costPerSector)
                              IN  IF ~FitsUint64(numSectors)
                                  THEN FormReturn(p,
                                         <<"allowance resulted in unexpectedly large contract size">>)
                                  ELSE /\ fpc' = [fpc EXCEPT ![p] = "readHeight"]
                                       /\ fret' = [fret EXCEPT ![p] = NoFormReturn]
                                       /\ floc' = [floc EXCEPT ![p] =
                                                     [ZeroFormLocals EXCEPT
                                                        !.hosts = hosts,
                                                        !.filesize = Filesize(numSectors)]]
    /\ NoSharedChange
    /\ UNCHANGED << nCalls, overlapped, pc, arg, loc, log, ret, renewHeight, hdb >>

\* Lines 271-274: read the block height under the read lock.
FormReadHeight(p) ==
    /\ fpc[p] = "readHeight"
    /\ LockFree(mu)
    /\ floc' = [floc EXCEPT ![p].endHeight = EndHeight(blockHeight, fa[p].Period),
                            ![p].numContracts = 0, ![p].i = 1]
    /\ fpc' = [fpc EXCEPT ![p] = "loop"]
    /\ NoSharedChange
    /\ UNCHANGED << nCalls, overlapped, pc, arg, loc, log, ret,
                    renewHeight, hdb, nPasses, fa, fret, tried >>

\* Lines 275-276: the next host of the sample is handed to newContract.
FormAttempt(p) ==
    /\ fpc[p] = "loop"
    /\ Call(p, floc[p].hosts[floc[p].i], floc[p].filesize, floc[p].endHeight)
    /\ fpc' = [fpc EXCEPT ![p] = "attempt"]
    /\ UNCHANGED << renewHeight, hdb, nPasses, fa, floc, fret, tried >>

\* Lines 277-287: newContract has returned; a failure is logged, the attempt
\* is counted, and the loop goes on or is left.
FormAfter(p) ==
    /\ fpc[p] = "attempt"
    /\ pc[p] = "done"
    /\ LET err == ret[p].err
           numContracts == floc[p].numContracts + Counted(err)
       IN  /\ tried' = [tried EXCEPT ![p] =
                          Append(@, [ host |-> floc[p].i, ok |-> (err = nil) ])]
           /\ floc' = [floc EXCEPT
                         ![p].warned = IF err # nil THEN @ + 1 ELSE @,
                         ![p].numContracts = numContracts,
                         ![p].i = IF LoopEnds(err, numContracts, fa[p], floc[p].i, floc[p].hosts)
                                  THEN @ ELSE @ + 1]
           /\ fpc' = [fpc EXCEPT ![p] =
                        IF LoopEnds(err, numContracts, fa[p], floc[p].i, floc[p].hosts)
                        THEN "lock" ELSE "loop"]
    /\ NoSharedChange
    /\ UNCHANGED << nCalls, overlapped, pc, arg, loc, log, ret,
                    renewHeight, hdb, nPasses, fa, fret >>

\* Line 288: c.mu.Lock()
FormLock(p) ==
    /\ fpc[p] = "lock"
    /\ LockFree(mu)
    /\ mu' = p
    /\ fpc' = [fpc EXCEPT ![p] = "setRenew"]
    /\ UNCHANGED << contracts, spentPeriod, spentTotal, cachedAddress, blockHeight,
                    saveCount, walletAddrs, drafts, nCalls, overlapped, pc, arg, loc,
                    log, ret, renewHeight, hdb, nPasses, fa, floc, fret, tried >>

\* Lines 289-291, holding c.mu: record the renewal height, unlock, return nil.
FormCommit(p) ==
    /\ fpc[p] = "setRenew"
    /\ mu = p
    /\ renewHeight' = floc[p].endHeight
    /\ mu' = Released(p)
    /\ FormReturn(p, nil)
    /\ UNCHANGED << contracts, spentPeriod, spentTotal, cachedAddress, blockHeight,
                    saveCount, walletAddrs, drafts, nCalls, overlapped, pc, arg, loc,
                    log, ret, hdb, nPasses, fa, tried >>

FormStep(p) ==
    \/ FormBegin(p)
    \/ FormReadHeight(p)
    \/ FormAttempt(p)
    \/ FormAfter(p)
    \/ FormLock(p)
    \/ FormCommit(p)
    \/ NewContractStep(p)

FormNext == \E p \in Procs : FormStep(p)

\* The contractor with a host database, and callers of formContracts only.
FormInit == ContractorInit /\ hdb \in HostPools

FormSpec == FormInit /\ [][FormNext]_vars

\* ================================================================ claims
\* What the log of a call holds.
Has(l, e) == \E i \in 1..Len(l) : l[i] = e

Count(l, kind, op) == Cardinality({ i \in 1..Len(l) : l[i][1] = kind /\ l[i][2] = op })

Did(l, kind, op) == Count(l, kind, op) > 0

NetworkIO(l) == \E i \in 1..Len(l) : l[i][1] = "net"

Failed(p) == pc[p] = "done" /\ ret[p].err # nil

Succeeded(p) == pc[p] = "done" /\ ret[p].err = nil

\* This step is the return of p's running call.
Concludes(p) == Running(p) /\ pc'[p] = "done"

\* ---------------------------------------------------------------- C1
C1_Step ==
    \A p \in Procs :
        (Concludes(p) /\ ret'[p].err = nil) =>
            LET contract == ret'[p].contract
            IN  /\ contract.ID \in DOMAIN contracts'
                /\ contracts'[contract.ID] = contract
                /\ contract # ZeroContract
                /\ spentPeriod' = spentPeriod + contract.FileContract.Payout
                /\ spentTotal' = spentTotal + contract.FileContract.Payout
                /\ cachedAddress' = ZeroUnlockHash
                /\ saveCount' = saveCount + 1
                /\ Count(log'[p], "save", "save") = 1

\* C1: the step in which a newContract call returns successfully stores the
\* returned contract in contracts under its own ID, adds exactly the
\* contract's payout to spentPeriod and to spentTotal, leaves cachedAddress
\* zero, and saves the state once; every key of contracts is the ID of the
\* contract stored under it.
C1_SuccessRecords ==
    /\ [][C1_Step]_vars
    /\ [](\A id \in DOMAIN contracts : contracts[id].ID = id)

C1_Witness ==
    \E p \in Procs :
        /\ Succeeded(p)
        /\ ret[p].contract.ID \in DOMAIN contracts
        /\ spentTotal = ret[p].contract.FileContract.Payout
        /\ spentPeriod = spentTotal
        /\ spentTotal > 0
        /\ cachedAddress = ZeroUnlockHash
        /\ saveCount = 1

\* ---------------------------------------------------------------- C2
C2_Step ==
    (\/ contracts' # contracts
     \/ spentPeriod' # spentPeriod
     \/ spentTotal' # spentTotal
     \/ saveCount' # saveCount)
        => \E p \in Procs : pc[p] = "commit" /\ Concludes(p) /\ ret'[p].err = nil

C2_Failed ==
    \A p \in Procs :
        Failed(p) => /\ ~Did(log[p], "save", "save")
                     /\ ret[p].contract = ZeroContract

\* C2: contracts, spentPeriod, spentTotal and the number of saves change only
\* in the step in which a call returns successfully, and a call that failed,
\* at whatever step, has not called save and returns no contract.
C2_FailureChangesNothing == [][C2_Step]_vars /\ []C2_Failed

\* Calls failed before, during and at the end of the negotiation, and nothing
\* was recorded.
C2_Witness ==
    /\ \E p \in Procs : Failed(p) /\ ret[p].err = <<"transaction set is invalid">>
    /\ \E p \in Procs : Failed(p) /\ ret[p].err = <<"dial timeout">>
    /\ contracts = EmptyMap
    /\ spentPeriod = 0
    /\ spentTotal = 0
    /\ saveCount = 0
    /\ nCalls = 2

\* ---------------------------------------------------------------- C3
C3_Step ==
    /\ \A p \in Procs :
         (Concludes(p) /\ loc[p].draft # 0) =>
            LET d == loc[p].draft
            IN  IF ret'[p].err # nil
                THEN /\ drafts[d].drops = 0
                     /\ drafts'[d].drops = 1
                     /\ Count(log'[p], "draft", "Drop") = 1
                ELSE /\ drafts'[d].drops = 0
                     /\ Count(log'[p], "draft", "Drop") = 0
    /\ \A d \in DOMAIN drafts :
         drafts'[d] # drafts[d] => \E p \in Procs : Running(p) /\ loc[p].draft = d

C3_State ==
    /\ \A p, q \in Procs : (p # q /\ loc[p].draft # 0) => loc[p].draft # loc[q].draft
    /\ \A p \in Procs : Running(p) /\ loc[p].draft # 0 => drafts[loc[p].draft].drops = 0
    /\ \A d \in DOMAIN drafts : drafts[d].drops <= 1

\* C3: a call that started a draft and fails drops that draft exactly once, in
\* the step in which it returns; a call that succeeds never drops its draft;
\* and a draft belongs to one call: running calls hold different drafts, and
\* only the running call that holds a draft changes it.
C3_DraftDroppedOnce == [][C3_Step]_vars /\ []C3_State

C3_Witness ==
    \E p, q \in Procs :
        /\ Failed(p)
        /\ Count(log[p], "draft", "Drop") = 1
        /\ Did(log[p], "draft", "FundSiacoins")
        /\ Succeeded(q)
        /\ Did(log[q], "wallet", "StartTransaction")
        /\ ~Did(log[q], "draft", "Drop")
        /\ Len(drafts) = 2
        /\ \E d \in DOMAIN drafts : drafts[d].drops = 1
        /\ \E d \in DOMAIN drafts : drafts[d].drops = 0

\* ---------------------------------------------------------------- C4
OverCeiling(host) == host.HostExternalSettings.ContractPrice > maxPrice

C4_State ==
    \A p \in Procs :
        /\ Running(p) => ~OverCeiling(arg[p].host)
        /\ (pc[p] = "done" /\ OverCeiling(arg[p].host)) =>
              /\ ret[p].err = errTooExpensive
              /\ ret[p].contract = ZeroContract
              /\ log[p] = << >>

C4_Step ==
    nCalls' # nCalls =>
        UNCHANGED << contracts, spentPeriod, spentTotal, cachedAddress, blockHeight,
                     saveCount, walletAddrs, drafts, mu >>

\* C4: a call for a host whose price is above maxPrice returns the
\* too-expensive error in its first step, before any call to the wallet, the
\* connection or a draft, and leaves the contractor's fields, cachedAddress
\* among them, and the wallet as they were.
C4_TooExpensiveFirst == []C4_State /\ [][C4_Step]_vars

C4_Witness ==
    \E p \in Procs :
        /\ pc[p] = "done"
        /\ arg[p].host.HostExternalSettings.ContractPrice = maxPrice + 1
        /\ ret[p].err = errTooExpensive
        /\ cachedAddress # ZeroUnlockHash
        /\ walletAddrs = 1

\* ---------------------------------------------------------------- C5
errInvalidDuration == <<"contract cannot end in the past">>

errNoAddress == <<"wallet: no address">>

\* C5 as claimed: every call whose endHeight is not after the current block
\* height is rejected with the invalid-duration error, whatever the host's
\* price and the wallet's behaviour, and without network I/O.
C5_Original ==
    \A p \in Procs :
        (pc[p] = "done" /\ arg[p].endHeight <= blockHeight) =>
            /\ ret[p].err = errInvalidDuration
            /\ ~NetworkIO(log[p])

\* C5, amended: a call whose endHeight is not after the current block height
\* is rejected without network I/O and without a draft: with the
\* too-expensive error when the host's price is above maxPrice, with the
\* wallet's error when an address was needed and the wallet gave none, and
\* with the invalid-duration error otherwise.
C5_RejectedBeforeNetwork ==
    \A p \in Procs :
        arg[p].endHeight <= blockHeight =>
            /\ Running(p) => (pc[p] \in {"lock1", "address"} /\ log[p] = << >>)
            /\ pc[p] = "done" =>
                 /\ ~NetworkIO(log[p])
                 /\ ~Did(log[p], "wallet", "StartTransaction")
                 /\ ret[p].contract = ZeroContract
                 /\ IF OverCeiling(arg[p].host)
                    THEN ret[p].err = errTooExpensive
                    ELSE \/ ret[p].err = errInvalidDuration
                         \/ /\ ret[p].err = errNoAddress
                            /\ log[p] = << <<"wallet", "NextAddress", "failed">> >>

C5_Witness ==
    \E p \in Procs :
        /\ pc[p] = "done"
        /\ arg[p].endHeight = blockHeight
        /\ ~OverCeiling(arg[p].host)
        /\ ret[p].err = errInvalidDuration
        /\ log[p] = << <<"wallet", "NextAddress", "ok">> >>

\* ---------------------------------------------------------------- C6
TpoolSaid(p, answer) == Has(log[p], <<"tpool", "AcceptTransactionSet", answer>>)

Recorded(p) ==
    /\ ret[p].err = nil
    /\ ret[p].contract # ZeroContract
    /\ ret[p].contract.ID \in DOMAIN contracts
    /\ contracts[ret[p].contract.ID] = ret[p].contract
    /\ Count(log[p], "save", "save") = 1
    /\ ~Did(log[p], "draft", "Drop")

C6_State ==
    \A p \in Procs :
        /\ (pc[p] = "done" /\ TpoolSaid(p, "accepted")) => Recorded(p)
        /\ (pc[p] = "done" /\ TpoolSaid(p, ErrDuplicateTransactionSet[1])) => Recorded(p)
        /\ TpoolSaid(p, "transaction set is invalid") =>
              /\ pc[p] = "done"
              /\ ret[p].err = <<"transaction set is invalid">>
              /\ ret[p].contract = ZeroContract
              /\ ~Did(log[p], "save", "save")

C6_Step ==
    \A p \in Procs :
        pc[p] = "submit" =>
            /\ pc'[p] = "lock2" =>
                 (TpoolSaid(p, "accepted") \/ TpoolSaid(p, ErrDuplicateTransactionSet[1]))'
            /\ pc'[p] = "done" =>
                 UNCHANGED << contracts, spentPeriod, spentTotal, saveCount >>

\* C6: when the pool answers the submission with the duplicate-transaction-set
\* error, the call goes on to the commit and ends with its contract recorded,
\* as it does when the pool accepts the set; any other error of the pool ends
\* the call with that error, with nothing recorded or saved.
C6_DuplicateIsSuccess == []C6_State /\ [][C6_Step]_vars

C6_Witness ==
    \E p \in Procs :
        /\ Succeeded(p)
        /\ TpoolSaid(p, ErrDuplicateTransactionSet[1])
        /\ Recorded(p)

\* ---------------------------------------------------------------- C7
HostSaid(p, response) == Has(log[p], <<"net", "read response", response>>)

C7_State ==
    \A p \in Procs :
        \A response \in Responses \ {AcceptResponse} :
            HostSaid(p, response) =>
                /\ pc[p] = "done"
                /\ ret[p].err = <<"host rejected proposed contract: ", response>>
                /\ ret[p].contract = ZeroContract
                /\ ~Did(log[p], "net", "read hostTxnSet")
                /\ ~Did(log[p], "tpool", "AcceptTransactionSet")
                /\ ~Did(log[p], "save", "save")

C7_Step ==
    \A p \in Procs :
        (pc[p] = "readResponse" /\ Concludes(p)) =>
            UNCHANGED << contracts, spentPeriod, spentTotal, saveCount >>

\* C7: a call whose host answered with a token other than the accept token has
\* ended with the error that carries that token, has neither read the host's
\* transaction set nor called the transaction pool, and recorded no contract.
C7_RejectionAborts == []C7_State /\ [][C7_Step]_vars

C7_Witness ==
    \E p \in Procs :
        /\ Failed(p)
        /\ HostSaid(p, "rejected: too small")
        /\ ret[p].err = <<"host rejected proposed contract: ", "rejected: too small">>
        /\ Has(log[p], <<"net", "write", "signedTxnSet">>)

\* ---------------------------------------------------------------- C8
NegotiationStarted(l) ==
    \/ Did(l, "wallet", "StartTransaction")
    \/ Did(l, "net", "deadline")
    \/ Did(l, "draft", "FundSiacoins")
    \/ Has(l, <<"net", "write", AcceptResponse>>)
    \/ Has(l, <<"net", "write", "signedTxnSet">>)

Ed25519Key(host) ==
    host.PublicKey.Algorithm = "ed25519" /\ host.PublicKey.KeyLen = 32

C8_State ==
    \A p \in Procs :
        /\ NegotiationStarted(log[p]) =>
              /\ Ed25519Key(arg[p].host)
              /\ Has(log[p], <<"net", "read settings", "accepting">>)
        /\ (pc[p] # "idle" /\ ~Ed25519Key(arg[p].host)) =>
              /\ ~Did(log[p], "net", "read settings")
              /\ pc[p] \in {"done", "lock1", "address", "dial", "writeRPC", "verifySettings"}
        /\ \A cause \in ReadSignedObjectErrors \cup {"not accepting"} :
              Has(log[p], <<"net", "read settings", cause>>) =>
                  /\ Failed(p)
                  /\ ret[p].err = IF cause = "not accepting"
                                  THEN <<"host is not accepting contracts">>
                                  ELSE <<"couldn't read host's settings: ", cause>>
        /\ (Failed(p) /\ ret[p].err = <<"host used unsupported signature algorithm">>) =>
              ~Ed25519Key(arg[p].host)

\* C8: a call has started its negotiation (a draft, the deadline, funds, the
\* accept token, the transaction set) only if the host's key is an ed25519 key
\* of the right length and the settings read were verified and say the host
\* accepts contracts; a call for a host with another key fails before reading
\* from the connection, and a call whose settings failed verification or
\* refuse contracts has failed with that error.
C8_NoNegotiationUnverified == []C8_State

C8_Witness ==
    \E p, q \in Procs :
        /\ Failed(p)
        /\ ret[p].err = <<"host is not accepting contracts">>
        /\ ~NegotiationStarted(log[p])
        /\ Failed(q)
        /\ ret[q].err = <<"host used unsupported signature algorithm">>
        /\ Has(log[q], <<"net", "write", RPCFormContract>>)
        /\ drafts = << >>

\* ---------------------------------------------------------------- C9
\* The call that returns in this step had obtained its address (line 166).
GotAddress(p) ==
    /\ Concludes(p)
    /\ pc[p] # "lock1"
    /\ pc[p] = "address" => ret'[p].err # errNoAddress

\* C9 as claimed: once a call that obtained the reservation address has
\* returned, with or without an error, cachedAddress is zero.
C9_Original ==
    [][ \A p \in Procs : GotAddress(p) => cachedAddress' = ZeroUnlockHash ]_vars

C9_Step ==
    /\ \A p \in Procs :
         GotAddress(p) =>
            IF ret'[p].err = nil
            THEN cachedAddress' = ZeroUnlockHash
            ELSE /\ pc[p] # "address" => cachedAddress' = cachedAddress
                 /\ ~overlapped => /\ cachedAddress' # ZeroUnlockHash
                                   /\ cachedAddress' = walletAddrs'
    /\ (cachedAddress # ZeroUnlockHash /\ cachedAddress' # cachedAddress) =>
          /\ cachedAddress' = ZeroUnlockHash
          /\ \E p \in Procs : Concludes(p) /\ ret'[p].err = nil
    /\ \A p \in Procs :
         (pc[p] = "address" /\ pc'[p] = "dial" /\ cachedAddress # ZeroUnlockHash) =>
            /\ loc'[p].ourAddress = cachedAddress
            /\ UNCHANGED << cachedAddress, walletAddrs >>

\* C9, amended: once a call has returned successfully cachedAddress is zero; a
\* call that fails does not clear cachedAddress (only a successful return
\* does), so, unless an overlapping call succeeded meanwhile, the address a
\* failed call obtained stays cached, and the next call uses it without asking
\* the wallet.
C9_ClearedOnSuccessOnly == [][C9_Step]_vars

\* A call failed after it obtained address 1; the next call holds the same
\* address, and the wallet was asked once.
C9_Witness ==
    \E p, q \in Procs :
        /\ ~overlapped
        /\ nCalls = 2
        /\ Failed(p)
        /\ Did(log[p], "net", "dial")
        /\ pc[q] = "dial"
        /\ loc[q].ourAddress = cachedAddress
        /\ cachedAddress # ZeroUnlockHash
        /\ walletAddrs = 1

\* --------------------------------------------------------------- C10
\* The addresses the wallet handed out that are in no recorded contract.
Unconsumed ==
    { a \in 1..walletAddrs :
        \A id \in DOMAIN contracts :
            contracts[id].FileContract.ValidProofOutputs[1].UnlockHash # a }

AskedOnlyWhenZero ==
    walletAddrs' # walletAddrs =>
        /\ cachedAddress = ZeroUnlockHash
        /\ cachedAddress' = walletAddrs'
        /\ \E p \in Procs : mu = p /\ pc[p] = "address"

\* C10 as claimed: under any interleaving of calls the wallet is asked for an
\* address only while cachedAddress is zero, and at most one address handed
\* out is in no recorded contract.
C10_Original ==
    [][ AskedOnlyWhenZero /\ Cardinality(Unconsumed') <= 1 ]_vars

\* C10, amended: under any interleaving of calls the wallet is asked for an
\* address only while cachedAddress is zero, by the call that holds the lock;
\* and as long as no two calls have overlapped, at most one address handed out
\* is in no recorded contract.
C10_OneReservation ==
    [][ AskedOnlyWhenZero /\ (~overlapped' => Cardinality(Unconsumed') <= 1) ]_vars

\* Calls one after the other: the first address was consumed by a contract,
\* the second is cached.
C10_Witness ==
    /\ ~overlapped
    /\ walletAddrs = 2
    /\ Cardinality(DOMAIN contracts) = 1
    /\ Unconsumed = {2}
    /\ cachedAddress = 2

\* ================================================= claims on formContracts
\* The sample the host database hands to a pass with allowance a.
Sampled(a) == RandomHosts(hdb, 2 * a.Hosts)

\* p has called formContracts, and the call has returned err.
FormReturned(p, err) == fpc[p] = "done" /\ fret[p] = err

\* This step is a call of formContracts.
PassBegins == nPasses' # nPasses

errNotEnoughHosts == <<"not enough hosts">>

\* ---------------------------------------------------------------- C11
C11_State ==
    \A p \in Procs :
        (fpc[p] # "idle" /\ Len(Sampled(fa[p])) < fa[p].Hosts) =>
            /\ FormReturned(p, errNotEnoughHosts)
            /\ tried[p] = << >>
            /\ ~Running(p)

C11_Step ==
    PassBegins =>
        UNCHANGED << contracts, spentPeriod, spentTotal, cachedAddress, renewHeight,
                     saveCount, walletAddrs, drafts, mu, pc, log, nCalls >>

\* C11: a formContracts call whose sample holds fewer hosts than
\* Allowance.Hosts has returned the not-enough-hosts error, has made no
\* newContract attempt and runs none; the step that is the call and its return
\* starts no newContract call, adds nothing to any call's log of network I/O,
\* and leaves contracts, the spend counters, cachedAddress and renewHeight
\* as they were.
C11_NotEnoughHosts == []C11_State /\ [][C11_Step]_vars

\* A pass for two hosts found one host in the database and was refused.
C11_Witness ==
    \E p \in Procs :
        /\ FormReturned(p, errNotEnoughHosts)
        /\ fa[p].Hosts = 2
        /\ Len(Sampled(fa[p])) = 1
        /\ tried[p] = << >>
        /\ renewHeight = 0

\* ---------------------------------------------------------------- C12
errInsufficientFunds == <<"insufficient funds">>

\* meanPrice x Hosts x SectorSize x Period over the hosts sampled for a.
SampleCost(a) ==
    IF Len(Sampled(a)) = 0 THEN 0
    ELSE (SumPrices(Sampled(a), Len(Sampled(a))) \div Len(Sampled(a)))
             * a.Hosts * SectorSize * a.Period

\* p's pass got a sample that is large enough.
SampleSuffices(p) == fpc[p] # "idle" /\ Len(Sampled(fa[p])) >= fa[p].Hosts

\* C12: every formContracts call whose sample suffices and whose allowance has
\* Funds below meanPrice x Hosts x SectorSize x Period, or has Funds = 0, has
\* returned the insufficient-funds error without a newContract attempt.
C12_Original ==
    \A p \in Procs :
        (/\ SampleSuffices(p)
         /\ (fa[p].Funds < SampleCost(fa[p]) \/ fa[p].Funds = 0)) =>
            /\ FormReturned(p, errInsufficientFunds)
            /\ tried[p] = << >>
            /\ ~Running(p)

\* What the code does keep of C12: funds below the cost are refused.
C12_BelowCostRefused ==
    \A p \in Procs :
        (SampleSuffices(p) /\ fa[p].Funds < SampleCost(fa[p])) =>
            /\ FormReturned(p, errInsufficientFunds)
            /\ tried[p] = << >>
            /\ ~Running(p)

\* A pass with no funds at all, over a sample of hosts that ask no price, was
\* not refused: the division by the cost of zero panicked.
C12_Witness ==
    \E p \in Procs :
        /\ SampleSuffices(p)
        /\ fa[p].Funds = 0
        /\ SampleCost(fa[p]) = 0
        /\ fpc[p] = "panic"

\* ---------------------------------------------------------------- C13
errAllowanceTooLarge == <<"allowance resulted in unexpectedly large contract size">>

\* p's pass passed the affordability check.
Affordable(p) ==
    /\ SampleSuffices(p)
    /\ SampleCost(fa[p]) > 0
    /\ fa[p].Funds >= SampleCost(fa[p])

\* floor(Funds / (meanPrice x Hosts x SectorSize x Period)) x SectorSize, as an
\* integer without bound.
ExactFilesize(a) == (a.Funds \div SampleCost(a)) * SectorSize

\* C13: in every pass that passed the affordability check, the filesize handed
\* to newContract is exactly floor(Funds / cost) x SectorSize, and a pass for
\* which that value does not fit the filesize word has returned the
\* allowance-too-large error.
C13_Original ==
    \A p \in Procs :
        Affordable(p) =>
            /\ fpc[p] = "attempt" => arg[p].filesize = ExactFilesize(fa[p])
            /\ ExactFilesize(fa[p]) > MaxUint64 => FormReturned(p, errAllowanceTooLarge)

\* What the code does keep of C13: a sector count that does not fit the word
\* is refused, and a filesize that fits is exact.
C13_SectorCountChecked ==
    \A p \in Procs :
        Affordable(p) =>
            /\ (fa[p].Funds \div SampleCost(fa[p])) > MaxUint64
                  => FormReturned(p, errAllowanceTooLarge)
            /\ (fpc[p] = "attempt" /\ ExactFilesize(fa[p]) <= MaxUint64)
                  => arg[p].filesize = ExactFilesize(fa[p])

\* A pass whose sector count fits the word while its filesize does not handed
\* newContract a filesize that wrapped around to zero.
C13_Witness ==
    \E p \in Procs :
        /\ Affordable(p)
        /\ fpc[p] = "attempt"
        /\ (fa[p].Funds \div SampleCost(fa[p])) <= MaxUint64
        /\ ExactFilesize(fa[p]) > MaxUint64
        /\ arg[p].filesize = 0

\* ---------------------------------------------------------------- C14
\* The attempts of p's pass that formed a contract.
Formed(p) == Cardinality({ k \in 1..Len(tried[p]) : tried[p][k].ok })

\* p's pass tried the hosts of its sample one at a time, in sampled order.
InSampledOrder(p) == \A k \in 1..Len(tried[p]) : tried[p][k].host = k

\* p's pass has left the loop over the sample.
LoopLeft(p) == fpc[p] \in {"lock", "setRenew"} \/ FormReturned(p, nil)

\* C14: a pass tries the hosts of its sample one at a time in sampled order,
\* and has left the loop only when the contracts it formed have reached
\* Allowance.Hosts or when it has tried every host of the sample.
C14_Original ==
    \A p \in Procs :
        /\ InSampledOrder(p)
        /\ LoopLeft(p) =>
              \/ Formed(p) >= fa[p].Hosts
              \/ Len(tried[p]) = Len(Sampled(fa[p]))

\* What the code does keep of C14: the sampled order, and a loop that is left
\* only when the attempts, formed or failed, have reached Allowance.Hosts or
\* the sample is exhausted.
C14_AttemptsCounted ==
    \A p \in Procs :
        /\ InSampledOrder(p)
        /\ LoopLeft(p) =>
              \/ Len(tried[p]) = fa[p].Hosts
              \/ Len(tried[p]) = Len(Sampled(fa[p]))

\* A pass for one host had two hosts in its sample, failed with the first and
\* ended without trying the second.
C14_Witness ==
    \E p \in Procs :
        /\ FormReturned(p, nil)
        /\ fa[p].Hosts = 1
        /\ Len(Sampled(fa[p])) = 2
        /\ Len(tried[p]) = 1
        /\ Formed(p) = 0

\* ---------------------------------------------------------------- C15
\* p's pass passed the pre-flight checks: sample, funds, filesize word.
PreflightPassed(p) ==
    /\ Affordable(p)
    /\ (fa[p].Funds \div SampleCost(fa[p])) <= MaxUint64

\* This step is p's pass taking note of what its newContract attempt returned.
AttemptNoted(p) == fpc[p] = "attempt" /\ fpc'[p] # "attempt"

C15_State ==
    \A p \in Procs :
        PreflightPassed(p) => fpc[p] # "panic" /\ fret[p] \in {NoFormReturn, nil}

C15_Step ==
    /\ \A id \in DOMAIN contracts :
           id \in DOMAIN contracts' /\ contracts'[id] = contracts[id]
    /\ \A p \in Procs :
           AttemptNoted(p) =>
               /\ fret'[p] = NoFormReturn
               /\ Len(tried'[p]) = Len(tried[p]) + 1
               /\ fpc'[p] = IF /\ Len(tried'[p]) < fa[p].Hosts
                               /\ Len(tried'[p]) < Len(Sampled(fa[p]))
                            THEN "loop" ELSE "lock"

PassEnds(p) == FormRunning(p) /\ ~FormRunning(p)'

C16_Step ==
    /\ \A p \in Procs :
           PassEnds(p) =>
               /\ mu = p
               /\ mu' = 0
               /\ renewHeight' = blockHeight + fa[p].Period
               /\ fret'[p] = nil
    /\ renewHeight' # renewHeight => \E p \in Procs : PassEnds(p)

\* C16: the step in which a pass that reached the iteration over its sample
\* returns is taken by the holder of the state lock, sets renewHeight to the
\* block height plus Allowance.Period, releases the lock and returns nil,
\* whatever the pass formed; renewHeight is written by no other step.
C16_RenewHeightRecorded == [][C16_Step]_vars

\* A pass over two blocks formed no contract and left its renewal height.
C16_Witness ==
    \E p \in Procs :
        /\ FormReturned(p, nil)
        /\ fa[p].Period = 2
        /\ Len(tried[p]) > 0
        /\ Formed(p) = 0
        /\ renewHeight = blockHeight + 2

\* ---------------------------------------------------------------- C17
\* The attempts of p's pass that failed.
FailedAttempts(p) == Len(tried[p]) - Formed(p)

\* C17: a pass for 4 hosts that has returned, was the only pass to run, and
\* failed with exactly one of the hosts it tried, returned no error, formed 3
\* contracts, all 3 recorded in contracts, and left renewHeight at the block
\* height plus Allowance.Period.
C17_PartialSuccess ==
    \A p \in Procs :
        (/\ fpc[p] = "done"
         /\ PreflightPassed(p)
         /\ nPasses = 1
         /\ fa[p].Hosts = 4
         /\ FailedAttempts(p) = 1) =>
            /\ fret[p] = nil
            /\ Formed(p) = 3
            /\ Cardinality(DOMAIN contracts) = 3
            /\ renewHeight = blockHeight + fa[p].Period

\* Of the 4 hosts of a pass the second rejected the contract; the other 3
\* contracts are recorded.
C17_Witness ==
    \E p \in Procs :
        /\ FormReturned(p, nil)
        /\ fa[p].Hosts = 4
        /\ Len(tried[p]) = 4
        /\ ~tried[p][2].ok
        /\ FailedAttempts(p) = 1
        /\ Cardinality(DOMAIN contracts) = 3
        /\ renewHeight = blockHeight + fa[p].Period

\* ---------------------------------------------------------------- C18
\* C18: every newContract call that is under way returns in the end.
C18_Original == \A p \in Procs : Running(p) ~> ~Running(p)

\* What the code does keep of C18: the deadline is in force at every read and
\* write of negotiateContract.
C18_NegotiationTimed ==
    \A p \in Procs :
        pc[p] \in {"sendAccept", "sendTxnSet", "readResponse", "readHostTxnSet"}
            => loc[p].deadline = "30s"

\* A call has dialed its host, is about to read the host's settings, and has
\* set no deadline on the connection.
C18_Witness ==
    \E p \in Procs :
        /\ pc[p] = "verifySettings"
        /\ SupportedKey(loc[p].host)
        /\ Did(log[p], "net", "dial")
        /\ ~Did(log[p], "net", "deadline")
        /\ loc[p].deadline = "none"

\* ---------------------------------------------------------------- C19
\* p's call is at a network step: the dial, or a read from or a write to the
\* host connection.
AtNetworkStep(p) ==
    pc[p] \in {"dial", "writeRPC", "verifySettings", "keygen", "fund", "sendAccept",
               "sendTxnSet", "readResponse", "readHostTxnSet"}

\* C19: a process that is at a network step of newContract, or whose
\* formContracts is waiting for its newContract call, does not hold the state
\* lock; the holder of the lock is at the address reservation with its reads
\* of cachedAddress and blockHeight, at the commit with its save, or at the
\* write of renewHeight, and whoever is there holds the lock.
C19_NoLockAcrossNetwork ==
    \A p \in Procs :
        /\ AtNetworkStep(p) => mu # p
        /\ (fpc[p] = "attempt" /\ Running(p) /\ pc[p] \notin {"address", "commit"}) => mu # p
        /\ mu = p <=> (pc[p] \in {"address", "commit"} \/ fpc[p] = "setRenew")
        /\ fpc[p] = "setRenew" => ~Running(p)

\* One process waits for its host's response while another holds the lock
\* for its commit.
C19_Witness ==
    \E p, q \in Procs :
        /\ p # q
        /\ pc[p] = "readResponse"
        /\ fpc[p] = "attempt"
        /\ pc[q] = "commit"
        /\ mu = q

\* ---------------------------------------------------------------- C20
\* The sum of the payouts of the contracts recorded under the IDs in ids.
RECURSIVE PayoutsOf(_)
PayoutsOf(ids) ==
    IF ids = {} THEN 0
    ELSE LET id == CHOOSE x \in ids : TRUE
         IN  contracts[id].FileContract.Payout + PayoutsOf(ids \ {id})

C20_State ==
    /\ \A p \in Procs : pc[p] \in {"address", "commit"} => mu = p
    /\ mu = 0 =>
          /\ spentTotal = PayoutsOf(DOMAIN contracts)
          /\ spentPeriod = PayoutsOf(DOMAIN contracts)
          /\ Cardinality(DOMAIN contracts) = saveCount

C20_Step ==
    (\/ contracts' # contracts
     \/ spentPeriod' # spentPeriod
     \/ spentTotal' # spentTotal
     \/ saveCount' # saveCount) =>
        \E p \in Procs :
            /\ mu = p
            /\ pc[p] = "commit"
            /\ mu' = 0
            /\ \E id \in DOMAIN contracts' \ DOMAIN contracts :
                  /\ DOMAIN contracts' = DOMAIN contracts \cup {id}
                  /\ spentPeriod' = spentPeriod + contracts'[id].FileContract.Payout
                  /\ spentTotal' = spentTotal + contracts'[id].FileContract.Payout
            /\ cachedAddress' = ZeroUnlockHash
            /\ saveCount' = saveCount + 1

\* C20: whoever is between Lock and Unlock holds the lock alone; contracts,
\* spentPeriod, spentTotal and the number of saves change only in a step of
\* the lock's holder that adds one contract under a new ID, adds its payout to
\* both counters, clears cachedAddress, saves and releases the lock; so in
\* every state in which the lock is free both counters equal the sum of the
\* payouts of the contracts recorded, and as many contracts are recorded as
\* formations were committed.
C20_CommitAtomic == []C20_State /\ [][C20_Step]_vars

\* Two calls that overlapped have both committed, and nothing was lost.
C20_Witness ==
    /\ overlapped
    /\ mu = 0
    /\ saveCount = 2
    /\ Cardinality(DOMAIN contracts) = 2
    /\ spentTotal = PayoutsOf(DOMAIN contracts)
    /\ spentTotal > 0
    /\ \E p, q \in Procs : p # q /\ Succeeded(p) /\ Succeeded(q)

\* ================================================ claims on the terms
\* p's call has built the terms fc of its contract.
TermsBuilt(p) == Running(p) /\ pc[p] \notin {"lock1", "address"}

\* The rent cost of p's call: price x filesize x duration.
RentCostOf(p) ==
    arg[p].host.HostExternalSettings.ContractPrice * arg[p].filesize
        * (arg[p].endHeight - loc[p].height)

\* ---------------------------------------------------------------- C21
\* The outputs of the terms fc are those of a renter at address addr who is
\* owed value.
RenterMadeWhole(fc, value, addr) ==
    /\ Len(fc.ValidProofOutputs) = 2
    /\ Len(fc.MissedProofOutputs) = 2
    /\ fc.ValidProofOutputs[1].Value = value
    /\ fc.MissedProofOutputs[1].Value = value
    /\ fc.ValidProofOutputs[1].UnlockHash = addr
    /\ fc.MissedProofOutputs[1].UnlockHash = addr
    /\ fc.ValidProofOutputs[2].Value = 0
    /\ fc.MissedProofOutputs[2].Value = 0
    /\ fc.MissedProofOutputs[2].UnlockHash = ZeroUnlockHash

\* C21: in the terms every call has built, and in the terms of every contract
\* recorded, the renter's valid-proof output and the renter's missed-proof
\* output carry the same value, the rent cost less the tax on it at the
\* height the call read, and the same address, the address the call took from
\* cachedAddress; the host's valid-proof output is zero, and the host's
\* missed-proof output is zero and goes to the zero address.
C21_RenterOutputsEqual ==
    /\ \A p \in Procs :
           TermsBuilt(p) =>
               /\ RenterMadeWhole(loc[p].fc,
                                  RentCostOf(p) - Tax(loc[p].height, RentCostOf(p)),
                                  loc[p].ourAddress)
               /\ loc[p].ourAddress # ZeroUnlockHash
    /\ \A id \in DOMAIN contracts :
           LET fc == contracts[id].FileContract
           IN  RenterMadeWhole(fc, fc.ValidProofOutputs[1].Value,
                               fc.ValidProofOutputs[1].UnlockHash)

\* A contract is recorded whose renter is owed the rent cost less a tax that
\* is not zero, with or without a proof.
C21_Witness ==
    \E id \in DOMAIN contracts :
        LET fc == contracts[id].FileContract
        IN  /\ fc.ValidProofOutputs[1].Value = fc.MissedProofOutputs[1].Value
            /\ fc.ValidProofOutputs[1].Value > 0
            /\ fc.ValidProofOutputs[1].Value < fc.Payout - 1
            /\ fc.MissedProofOutputs[2].UnlockHash = ZeroUnlockHash

\* ---------------------------------------------------------------- C22
\* The identifier of contract output 0 of the last transaction of a signed
\* transaction set: a function of the set, with its signatures left out.
IDOfSigned(signedTxnSet) ==
    LET txn == signedTxnSet[Len(signedTxnSet)]
    IN  << txn.draft, txn.FileContracts, 0 >>

C22_State ==
    \A p \in Procs :
        pc[p] \in {"sendAccept", "sendTxnSet", "readResponse", "readHostTxnSet", "submit"}
            => loc[p].fcid = IDOfSigned(loc[p].signedTxnSet)

C22_Step ==
    \A p \in Procs :
        /\ (pc[p] = "submit" /\ pc'[p] = "lock2") =>
               /\ loc'[p].contract.ID = IDOfSigned(loc[p].signedTxnSet)
               /\ loc'[p].contract.LastRevision.ParentID = IDOfSigned(loc[p].signedTxnSet)
        /\ (pc[p] = "lock2" /\ pc'[p] = "commit") => loc'[p].contract = loc[p].contract
        /\ (pc[p] = "commit" /\ pc'[p] = "done") =>
               /\ ret'[p].contract = loc[p].contract
               /\ DOMAIN contracts' = DOMAIN contracts \cup {loc[p].contract.ID}

\* C22: from the signing of the transaction set to the call of the pool, the
\* ID a call holds is the identifier of contract output 0 of the last
\* transaction of the set it signed; that ID, whatever response, transaction
\* set and pool answer came after the signing, is the ID of the contract the
\* call assembles, and the contract is recorded and returned under it.
C22_IDFromSignedSet == []C22_State /\ [][C22_Step]_vars

\* A contract is recorded under the identifier of the contract output of the
\* transaction of the call's own draft, after the pool said it held the
\* host's transaction set already.
C22_Witness ==
    \E p \in Procs :
        /\ Succeeded(p)
        /\ TpoolSaid(p, ErrDuplicateTransactionSet[1])
        /\ ret[p].contract.ID \in DOMAIN contracts
        /\ \E d \in 1..Len(drafts) :
              ret[p].contract.ID = << d, << ret[p].contract.FileContract >>, 0 >>

\* ---------------------------------------------------------------- C23
\* The positions in a call's log of the entries of one step, and of those
\* with a given outcome.
StepAt(l, kind, op) == {i \in 1..Len(l) : l[i][1] = kind /\ l[i][2] = op}
EntryAt(l, e) == {i \in 1..Len(l) : l[i] = e}
AtMostOnce(S) == \A i, j \in S : i = j
Before(S, T) == \A j \in T : \E i \in S : i < j

FundedAt(l) == EntryAt(l, <<"draft", "FundSiacoins", "ok">>)
SignedAt(l) == EntryAt(l, <<"draft", "Sign", "ok">>)
AcceptSentAt(l) == EntryAt(l, <<"net", "write", AcceptResponse>>)
TxnSetSentAt(l) == EntryAt(l, <<"net", "write", "signedTxnSet">>)
ResponseReadAt(l) == StepAt(l, "net", "read response")
AcceptReadAt(l) == EntryAt(l, <<"net", "read response", AcceptResponse>>)
HostTxnSetReadAt(l) == StepAt(l, "net", "read hostTxnSet")
HostTxnSetGotAt(l) == EntryAt(l, <<"net", "read hostTxnSet", "ok">>)
PoolCalledAt(l) == StepAt(l, "tpool", "AcceptTransactionSet")

\* C23: in the log of every call, funds are reserved and then the set is
\* signed before the accept token is written, the accept token is written
\* before the signed set, the response is read after the signed set was
\* written, the host's set is read only after an accept response, the pool is
\* called only after the host's set was read, and each of these steps
\* appears at most once.
C23_LinearOrder ==
    \A p \in Procs :
        LET l == log[p]
        IN  /\ Before(FundedAt(l), SignedAt(l))
            /\ Before(SignedAt(l), AcceptSentAt(l))
            /\ Before(AcceptSentAt(l), TxnSetSentAt(l))
            /\ Before(TxnSetSentAt(l), ResponseReadAt(l))
            /\ Before(AcceptReadAt(l), HostTxnSetReadAt(l))
            /\ Before(HostTxnSetGotAt(l), PoolCalledAt(l))
            /\ AtMostOnce(StepAt(l, "draft", "FundSiacoins"))
            /\ AtMostOnce(StepAt(l, "draft", "Sign"))
            /\ AtMostOnce(AcceptSentAt(l))
            /\ AtMostOnce(TxnSetSentAt(l))
            /\ AtMostOnce(ResponseReadAt(l))
            /\ AtMostOnce(HostTxnSetReadAt(l))
            /\ AtMostOnce(PoolCalledAt(l))

\* A call went through all of the exchange: its log holds the seven steps.
C23_Witness ==
    \E p \in Procs :
        LET l == log[p]
        IN  /\ FundedAt(l) # {} /\ SignedAt(l) # {}
            /\ AcceptSentAt(l) # {} /\ TxnSetSentAt(l) # {}
            /\ AcceptReadAt(l) # {} /\ HostTxnSetGotAt(l) # {}
            /\ PoolCalledAt(l) # {}

\* ---------------------------------------------------------------- C24
\* The terms fc agree with price, filesize, collateral k, end height e,
\* block height h and the host's window size.
TermsAsStated(fc, price, filesize, k, e, h, windowSize) ==
    /\ h < e
    /\ fc.Payout = price * filesize * (e - h) + k
    /\ fc.WindowStart = e
    /\ fc.WindowEnd = e + windowSize
    /\ fc.FileSize = 0
    /\ fc.RevisionNumber = 0

\* C24: the terms every call has built have payout p * s * (e - h) + k,
\* a proof window from e to e plus the host's window size, file size 0 and
\* revision number 0, where p, k and the window size are those of the host
\* the call was given, s and e its filesize and end height, and h the block
\* height it read, which is below e.
C24_TermsComputed ==
    \A p \in Procs :
        TermsBuilt(p) =>
            LET hs == arg[p].host.HostExternalSettings
            IN  TermsAsStated(loc[p].fc, hs.ContractPrice, arg[p].filesize, hs.Collateral,
                              arg[p].endHeight, loc[p].height, hs.WindowSize)

\* Terms are built for a priced host, a filesize of several sectors and a
\* duration of two blocks, so that every factor of the payout counts.
C24_Witness ==
    \E p \in Procs :
        /\ TermsBuilt(p)
        /\ arg[p].host.HostExternalSettings.ContractPrice > 0
        /\ arg[p].filesize > SectorSize
        /\ loc[p].fc.Payout > arg[p].host.HostExternalSettings.ContractPrice * arg[p].filesize
                                 + arg[p].host.HostExternalSettings.Collateral
        /\ arg[p].endHeight - loc[p].height = 2
        /\ arg[p].host.HostExternalSettings.Collateral > 0
        /\ loc[p].fc.WindowEnd > loc[p].fc.WindowStart

\* ---------------------------------------------------------------- C25
SumOfOutputs(outputs) == outputs[1].Value + outputs[2].Value

\* The outputs of fc pay out all of the payout that is left after the tax
\* on the payout at height h.
OutputsCoverPayout(fc, h) ==
    /\ SumOfOutputs(fc.ValidProofOutputs) = fc.Payout - Tax(h, fc.Payout)
    /\ SumOfOutputs(fc.MissedProofOutputs) = fc.Payout - Tax(h, fc.Payout)

\* C25: in the terms every call has built, the two valid-proof outputs sum
\* to the payout net of the tax on the payout, and so do the two missed-proof
\* outputs, whatever the host's collateral.
C25_Original ==
    \A p \in Procs : TermsBuilt(p) => OutputsCoverPayout(loc[p].fc, loc[p].height)

\* A contract was recorded whose host put up collateral and whose outputs,
\* valid and missed alike, fall short of the payout net of tax by the
\* collateral: no output receives it.
C25_Witness ==
    \E id \in DOMAIN contracts :
        LET fc == contracts[id].FileContract
        IN  \E h \in Heights, k \in Collaterals :
                /\ k > 0
                /\ fc.Payout - Tax(h, fc.Payout) - SumOfOutputs(fc.ValidProofOutputs) = k
                /\ fc.Payout - Tax(h, fc.Payout) - SumOfOutputs(fc.MissedProofOutputs) = k

\* ---------------------------------------------------------------- C26
\* The transaction set holds a transaction signed by the renter one of whose
\* contract outputs has the identifier id.
ContainsRenterSigned(txnSet, id) ==
    \E i \in 1..Len(txnSet) :
        /\ "renter" \in txnSet[i].Signatures
        /\ \E k \in 1..Len(txnSet[i].FileContracts) :
              << txnSet[i].draft, txnSet[i].FileContracts, k - 1 >> = id

\* The pool let the call of p go on to record its contract.
PoolLetsThrough(p) == pc[p] = "submit" /\ pc'[p] = "lock2"

C26_Step ==
    \A p \in Procs :
        PoolLetsThrough(p) => ContainsRenterSigned(loc[p].hostTxnSet, loc'[p].contract.ID)

\* C26: the transaction set a call submitted to the pool, when the call goes
\* on to record its contract and to count the payout as spent, contains the
\* renter-signed transaction whose contract output has the ID of that
\* contract; a host that answers accept and returns an empty or an unrelated
\* set has no contract recorded.
C26_Original == [][C26_Step]_vars

\* A call signed its contract transaction, its host answered accept and
\* returned a set without that transaction, and the call is about to hand the
\* host's set to the pool.
C26_Witness ==
    \E p \in Procs :
        /\ pc[p] = "submit"
        /\ loc[p].response = AcceptResponse
        /\ ~ContainsRenterSigned(loc[p].hostTxnSet, loc[p].fcid)
        /\ ContainsRenterSigned(loc[p].signedTxnSet, loc[p].fcid)

\* ---------------------------------------------------------------- C27
\* The settings verifySettings returned to the call of p: from there on the
\* call's host carries them.
FreshSettings(p) == loc[p].host.HostExternalSettings

\* The call of p records its contract.
Records(p) ==
    /\ pc[p] = "commit" /\ pc'[p] = "done"
    /\ loc[p].contract.ID \in DOMAIN contracts'

C27_Step ==
    \A p \in Procs :
        Records(p) =>
            /\ FreshSettings(p).ContractPrice <= maxPrice
            /\ TermsAsStated(loc[p].contract.FileContract,
                             FreshSettings(p).ContractPrice, arg[p].filesize,
                             FreshSettings(p).Collateral, arg[p].endHeight,
                             loc[p].height, FreshSettings(p).WindowSize)

\* C27: whenever a call records a contract, the price of the settings it
\* verified on the connection is at most maxPrice, and the recorded terms
\* have the payout and the proof window that follow from the price, the
\* collateral and the window size of those settings.
C27_Original == [][C27_Step]_vars

\* A call holds the lock and is about to record a contract with a host whose
\* verified settings ask more than maxPrice, the terms being those of the
\* lower price known before.
C27_Witness ==
    \E p \in Procs :
        /\ pc[p] = "commit"
        /\ mu = p
        /\ FreshSettings(p).ContractPrice > maxPrice
        /\ arg[p].host.HostExternalSettings.ContractPrice <= maxPrice
        /\ loc[p].contract.FileContract.Payout
               < FreshSettings(p).ContractPrice * arg[p].filesize
                     * (arg[p].endHeight - loc[p].height)

\* ---------------------------------------------------------------- C28
\* The call of formContracts by p ended in a panic.
Panicked(p) == fpc[p] = "panic"

\* C28: no call of formContracts ends in a panic: whatever the allowance and
\* the sample, Hosts = 0 and samples of price 0 included, neither the mean
\* price nor Funds / cost is computed with a zero divisor, and every call
\* that has ended has returned nil or an error value.
C28_Original ==
    \A p \in Procs :
        /\ ~Panicked(p)
        /\ fpc[p] = "done" => fret[p] # <<"panic: division by zero">>

\* One call with Hosts = 0 panicked on the mean price of its empty sample,
\* and another, with Hosts > 0 over a sample of price 0, on Funds / cost.
C28_Witness ==
    \E p, q \in Procs :
        /\ Panicked(p) /\ fa[p].Hosts = 0 /\ Len(Sampled(fa[p])) = 0
        /\ Panicked(q) /\ fa[q].Hosts > 0 /\ Len(Sampled(fa[q])) >= fa[q].Hosts
        /\ SumPrices(Sampled(fa[q]), Len(Sampled(fa[q]))) = 0

====
